---- MODULE Spec2Model ----
(***************************************************************************)
(* Model of verifybot (src/main.py): a Telegram bot answering "is this     *)
(* user verified" from a MongoDB collection, with a supervised polling     *)
(* loop (bot_polling), a liveness monitor (keep_alive) and two Flask       *)
(* health endpoints.                                                       *)
(*                                                                         *)
(* Text (usernames, argument tokens, service descriptions) is a sequence   *)
(* of one-character strings, so that lower/strip/replace are computed as   *)
(* Python computes them.                                                   *)
(***************************************************************************)
EXTENDS Integers, Sequences, FiniteSets, TLC

VARIABLES
    bot_running,          \* main.py:46, the global liveness flag
    pc,                   \* position of every bot_polling thread
    main_pc,              \* position of the __main__ block
    tick,                 \* what the last keep_alive iteration read and did,
                          \* and how many iterations read the flag False
    verified_collection,  \* main.py:40, the documents of db['users']
    authorized_users,     \* main.py:43
    last,                 \* the last message handled and what its handler did
    response,             \* the last HTTP response of the Flask app
    workers,              \* the handlers running on the worker threads of
                          \* TeleBot(threaded=True), main.py:35
    serial_collection,    \* the collection as it would be had every handler
                          \* run alone, in the order of their last store call
    outcome               \* the reply of the last /add or /remove handler
                          \* that ran on a worker, and the reply it would have
                          \* sent had it run alone

vars == <<bot_running, pc, main_pc, tick, verified_collection,
          authorized_users, last, response, workers, serial_collection,
          outcome>>

supVars == <<bot_running, pc, main_pc, tick>>
cmdVars == <<verified_collection, authorized_users, last>>
raceVars == <<workers, serial_collection, outcome>>

----------------------------------------------------------------------------
(* Bounds                                                                  *)

\* number of bot_polling threads the model lets exist at once
MaxThreads == 3
\* largest number of whitespace-separated tokens after the command word
MaxArgs == 3

\* number of worker threads that run handlers at the same time
MaxWorkers == 2

None == "None"

----------------------------------------------------------------------------
(* Python str methods on sequences of characters                           *)

LowerChar(c) ==
    CASE c = "A" -> "a"
      [] c = "B" -> "b"
      [] OTHER -> c

\* str.lower()
Lower(s) == [i \in 1..Len(s) |-> LowerChar(s[i])]

IsSpace(c) == c = " "

RECURSIVE LStrip(_)
LStrip(s) ==
    IF s # <<>> /\ IsSpace(Head(s)) THEN LStrip(Tail(s)) ELSE s

RECURSIVE RStrip(_)
RStrip(s) ==
    IF s # <<>> /\ IsSpace(s[Len(s)]) THEN RStrip(SubSeq(s, 1, Len(s) - 1)) ELSE s

\* str.strip()
Strip(s) == RStrip(LStrip(s))

\* str.replace(old, new) for a one-character old; new is a (possibly empty) text
RECURSIVE Replace(_, _, _)
Replace(s, old, new) ==
    IF s = <<>> THEN <<>>
    ELSE (IF Head(s) = old THEN new ELSE <<Head(s)>>) \o Replace(Tail(s), old, new)

\* " ".join(words)
RECURSIVE Join(_)
Join(words) ==
    IF words = <<>> THEN <<>>
    ELSE IF Len(words) = 1 THEN words[1]
    ELSE words[1] \o <<" ">> \o Join(Tail(words))

\* a mutated normaliser that forgets to lowercase
format_username_keepcase(username) ==
    <<"@">> \o Replace(Strip(username), "@", <<>>)

\* main.py:49-52
format_username(username) ==
    <<"@">> \o Replace(Strip(Lower(username)), "@", <<>>)

----------------------------------------------------------------------------
(* The MongoDB collection: a set of documents, at most one per username    *)
(* as long as every write is the upsert of save_verified_user.             *)

Doc(username, service) == [username |-> username, service |-> service]

\* stands for the None that find_one returns when no document matches
NoDocument == Doc(<<>>, <<>>)

\* the four clauses of the $or filter, main.py:59-64
lookup_filter(formatted_username) ==
    { formatted_username,
      Lower(formatted_username),
      Replace(formatted_username, "_", <<>>),
      Replace(formatted_username, "_", <<"-">>) }

\* find_one with the $or filter: the server returns the first matching
\* document it meets; which one that is when several match is not decided
\* by the order of the clauses, so every matching document is a possible
\* result.  The value is the set of possible return values of
\* get_verified_user (NoDocument when nothing matches).  main.py:55-74;
\* every document of the collection has a service, so lines 70-71 change
\* nothing that is kept here.
get_verified_user(coll, username) ==
    LET matches == { d \in coll : d.username \in lookup_filter(format_username(username)) }
    IN IF matches = {} THEN {NoDocument} ELSE matches

\* a mutated write that inserts a document without looking for the key
save_verified_user_insert(coll, username, service) ==
    coll \cup {Doc(format_username(username), service)}

\* main.py:77-83, update_one(..., upsert=True)
save_verified_user(coll, username, service) ==
    LET key == format_username(username)
    IN { d \in coll : d.username # key } \cup {Doc(key, service)}

\* a mutated delete that removes every document the lookup would match
remove_verified_user_all(coll, username) ==
    { d \in coll : d.username \notin lookup_filter(format_username(username)) }

\* main.py:86-88, delete_one by the canonical key
remove_verified_user(coll, username) ==
    { d \in coll : d.username # format_username(username) }

\* a mutated membership test that lets everyone through
is_authorized_open(auth, id) == TRUE

\* main.py:91-92
is_authorized(auth, id) == id \in auth

----------------------------------------------------------------------------
(* Threads                                                                 *)

Threads == 1..MaxThreads

\* the three except clauses of bot_polling, main.py:219-227
Exceptions == {"RequestException", "ApiException", "Exception"}

Running(p) == { t \in Threads : p[t] # "unstarted" }
NumThreads(p) == Cardinality(Running(p))
InPolling(p) == { t \in Threads : p[t] = "polling" }

\* threading.Thread(target=bot_polling).start(): one more thread, at the top
\* of its loop
StartThread(p) ==
    LET t == CHOOSE u \in Threads \ Running(p) :
                 \A w \in Threads \ Running(p) : u <= w
    IN [p EXCEPT ![t] = "top"]

----------------------------------------------------------------------------
(* bot_polling, main.py:212-231                                            *)

\* main.py:216-218: set the flag and enter the blocking bot.polling() call
EnterPolling(t) ==
    /\ pc[t] = "top"
    /\ bot_running' = TRUE
    /\ pc' = [pc EXCEPT ![t] = "polling"]
    /\ UNCHANGED <<main_pc, tick, cmdVars, response, raceVars>>

\* a mutated except clause that lets the exception leave the loop
PollingRaisesExit(t, e) ==
    /\ pc[t] = "polling"
    /\ e \in Exceptions
    /\ pc' = [pc EXCEPT ![t] = IF e = "Exception" THEN "dead" ELSE "except"]
    /\ UNCHANGED <<bot_running, main_pc, tick, cmdVars, response, raceVars>>

\* main.py:218-227: bot.polling() raises e; one of the except clauses
\* takes it and starts its time.sleep(10), the flag still as it was
PollingRaises(t, e) ==
    /\ pc[t] = "polling"
    /\ e \in Exceptions
    /\ pc' = [pc EXCEPT ![t] = "except"]
    /\ UNCHANGED <<bot_running, main_pc, tick, cmdVars, response, raceVars>>

\* main.py:218: bot.polling() returns; control goes to the finally block
PollingReturns(t) ==
    /\ pc[t] = "polling"
    /\ pc' = [pc EXCEPT ![t] = "finally"]
    /\ UNCHANGED <<bot_running, main_pc, tick, cmdVars, response, raceVars>>

\* main.py:221/224/227: the sleep of the except clause ends
ExceptSleepDone(t) ==
    /\ pc[t] = "except"
    /\ pc' = [pc EXCEPT ![t] = "finally"]
    /\ UNCHANGED <<bot_running, main_pc, tick, cmdVars, response, raceVars>>

\* main.py:228-231: finally clears the flag and starts its time.sleep(10)
Finally(t) ==
    /\ pc[t] = "finally"
    /\ bot_running' = FALSE
    /\ pc' = [pc EXCEPT ![t] = "backoff"]
    /\ UNCHANGED <<main_pc, tick, cmdVars, response, raceVars>>

\* main.py:231 -> 214: the backoff sleep ends, next iteration of while True
BackoffDone(t) ==
    /\ pc[t] = "backoff"
    /\ pc' = [pc EXCEPT ![t] = "top"]
    /\ UNCHANGED <<bot_running, main_pc, tick, cmdVars, response, raceVars>>

----------------------------------------------------------------------------
(* keep_alive, main.py:233-245, and __main__, main.py:247-261              *)

\* a mutated monitor that starts a thread whatever the flag reads
keep_alive_always(flag, p) == StartThread(p)

\* a mutated monitor that never restarts anything
keep_alive_never(flag, p) == p

\* main.py:236-240: the threads after one iteration that read `flag`
keep_alive(flag, p) == IF ~flag THEN StartThread(p) ELSE p

\* one iteration of the while True loop of keep_alive (then sleep 30)
KeepAliveTick ==
    /\ main_pc = "serving"
    /\ bot_running \/ Running(pc) # Threads
    /\ pc' = keep_alive(bot_running, pc)
    /\ tick' = [ran |-> TRUE, read |-> bot_running,
                started |-> NumThreads(pc') - NumThreads(pc),
                down |-> tick.down + (IF bot_running THEN 0 ELSE 1)]
    /\ UNCHANGED <<bot_running, main_pc, cmdVars, response, raceVars>>

\* main.py:250-252
MainStartPolling ==
    /\ main_pc = "start_polling"
    /\ pc' = StartThread(pc)
    /\ main_pc' = "start_keep_alive"
    /\ UNCHANGED <<bot_running, tick, cmdVars, response, raceVars>>

\* main.py:255-261: the keep_alive thread is started, then app.run serves
MainStartKeepAlive ==
    /\ main_pc = "start_keep_alive"
    /\ main_pc' = "serving"
    /\ UNCHANGED <<bot_running, pc, tick, cmdVars, response, raceVars>>

----------------------------------------------------------------------------
(* Flask routes, main.py:200-206                                           *)

\* a mutated status that does not look at the flag
status_text_const(flag) == "running"

\* main.py:202, 206
status_text(flag) == IF flag THEN "running" ELSE "stopped"

\* main.py:200-202
home ==
    /\ main_pc = "serving"
    /\ response' = [path |-> "/", body |-> <<"Bot is", status_text(bot_running)>>,
                    status |-> 200]
    /\ UNCHANGED <<supVars, cmdVars, raceVars>>

\* main.py:204-206
health ==
    /\ main_pc = "serving"
    /\ response' = [path |-> "/health",
                    body |-> <<"OK - Bot is", status_text(bot_running)>>,
                    status |-> 200]
    /\ UNCHANGED <<supVars, cmdVars, raceVars>>

----------------------------------------------------------------------------
(* Inbound messages                                                        *)

\* stands for int(os.getenv('OWNER_ID'))
OWNER_ID == 1

\* the identities that send messages: the owner and one other user
Senders == {OWNER_ID, 2}

Commands == {"check", "add", "remove", "auth", "ping"}

\* usernames as users type them: one with an underscore, and one written
\* with a sigil and capitals whose canonical key is the underscore-removed
\* variant of the first
UserTokens == { <<"a", "_", "b">>, <<"@", "A", "B">> }

\* the first token after the command word: a username, or for /auth the
\* number of the other sender or something that is no number
FirstTokens(cmd) ==
    IF cmd = "auth" THEN { <<"2">>, <<"a", "_", "b">> } ELSE UserTokens

\* the tokens after it (the words of a service description)
RestTokens == { <<"s">> }

RECURSIVE ArgLists(_, _)
ArgLists(cmd, n) ==
    IF n = 0 THEN {<<>>}
    ELSE IF n = 1 THEN { <<f>> : f \in FirstTokens(cmd) }
    ELSE { Append(a, r) : a \in ArgLists(cmd, n - 1), r \in RestTokens }

\* message.text.split()[1:], message.from_user.id and
\* message.reply_to_message.from_user.username (empty without a replied-to
\* message or a username), for the messages that carry command cmd
Arrives(cmd) ==
    { [cmd |-> cmd, from |-> u, args |-> a, reply_to |-> <<>>] :
          u \in Senders, a \in UNION { ArgLists(cmd, n) : n \in 0..MaxArgs } }
    \cup
    { [cmd |-> cmd, from |-> u, args |-> <<>>, reply_to |-> r] :
          u \in Senders, r \in IF cmd = "check" THEN UserTokens ELSE {} }

\* no message has been handled yet
NoMessage == [cmd |-> None, from |-> 0, args |-> <<>>, reply_to |-> <<>>]

----------------------------------------------------------------------------
(* int(text), main.py:191: an optional sign and decimal digits              *)
(* (no token of the model has whitespace or digit-separating underscores) *)

Digits == <<"0", "1", "2", "3", "4", "5", "6", "7", "8", "9">>

IsDigit(c) == \E i \in 1..10 : Digits[i] = c
DigitValue(c) == (CHOOSE i \in 1..10 : Digits[i] = c) - 1

RECURSIVE DecimalValue(_)
DecimalValue(s) ==
    IF s = <<>> THEN 0
    ELSE 10 * DecimalValue(SubSeq(s, 1, Len(s) - 1)) + DigitValue(s[Len(s)])

Signed(text) == text # <<>> /\ Head(text) \in {"+", "-"}
Unsigned(text) == IF Signed(text) THEN Tail(text) ELSE text

\* whether int(text) returns (otherwise it raises ValueError)
is_int(text) ==
    /\ Unsigned(text) # <<>>
    /\ \A i \in 1..Len(Unsigned(text)) : IsDigit(Unsigned(text)[i])

int(text) ==
    IF Head(text) = "-" THEN 0 - DecimalValue(Unsigned(text))
    ELSE DecimalValue(Unsigned(text))

----------------------------------------------------------------------------------------------------------------------------------------------------
(* Handlers.  A handler run yields the collection and the registry it      *)
(* leaves, the bot.reply_to calls it made in order (text kind, the service *)
(* shown, and whether the call delivered or raised) and whether an         *)
(* exception left the handler.  The collaborators decide part of it: every *)
(* store call returns or raises, every bot.reply_to delivers or raises, so *)
(* a handler is the set of runs it can have.                               *)

UpperChar(c) ==
    CASE c = "a" -> "A"
      [] c = "b" -> "B"
      [] c = "s" -> "S"
      [] OTHER -> c

\* str.upper()
Upper(s) == [i \in 1..Len(s) |-> UpperChar(s[i])]

\* one more bot.reply_to call, delivered or raising
Reply(replies, kind, service) ==
    { Append(replies, [kind |-> kind, service |-> service, ok |-> ok]) :
          ok \in BOOLEAN }

LastFailed(replies) == replies # <<>> /\ ~replies[Len(replies)].ok

\* the state of a try body when it ends or is left by an exception
Body(coll, auth, replies, raised) ==
    [coll |-> coll, auth |-> auth, replies |-> replies, raised |-> raised]

\* a store call (find_one, update_one, delete_one) raises
StoreRaises(coll, auth) == Body(coll, auth, <<>>, TRUE)

\* bodies whose last statement is the bot.reply_to that the run ends with
Replied(coll, auth, runs) ==
    { Body(coll, auth, replies, LastFailed(replies)) : replies \in runs }

Result(b, replies, escaped) ==
    [coll |-> b.coll, auth |-> b.auth, replies |-> replies, escaped |-> escaped]

\* `except Exception as e:` around a handler body, main.py:133-135,
\* 154-156, 175-177, 196-198: log, then one more bot.reply_to, which may
\* raise in its turn
TryExcept(bodies) ==
    UNION { IF b.raised
            THEN { Result(b, r, LastFailed(r)) : r \in Reply(b.replies, "error", <<>>) }
            ELSE { Result(b, b.replies, FALSE) } : b \in bodies }

\* main.py:102-108: the username /check is about, empty when there is none
check_username(msg) ==
    IF Len(msg.args) > 0 THEN Strip(msg.args[1])
    ELSE IF msg.reply_to # <<>> THEN msg.reply_to
    ELSE <<>>

\* main.py:113-132: the MarkdownV2 reply and, when it raises, the
\* plain-text one
check_reply(coll, auth, found) ==
    LET kind == IF found # NoDocument THEN "verified" ELSE "not_verified"
        plain == IF found # NoDocument THEN "verified_plain" ELSE "not_verified_plain"
        service == IF found # NoDocument THEN Upper(found.service) ELSE <<>>
    IN UNION { IF ~LastFailed(first) THEN { Body(coll, auth, first, FALSE) }
               ELSE Replied(coll, auth, Reply(first, plain, service)) :
                   first \in Reply(<<>>, kind, service) }

\* main.py:99-135
check_verification(msg, coll, auth) ==
    LET username == check_username(msg)
    IN IF username = <<>>
       THEN TryExcept(Replied(coll, auth, Reply(<<>>, "usage", <<>>)))
       ELSE TryExcept({ StoreRaises(coll, auth) } \cup
                      UNION { check_reply(coll, auth, found) :
                                  found \in get_verified_user(coll, username) })

\* a mutated /add that forgets the return after its refusal
add_verified_noreturn(msg, coll, auth) ==
    LET username == format_username(msg.args[1])
        service == Join(Tail(msg.args))
        refused == IF ~is_authorized(auth, msg.from)
                   THEN Reply(<<>>, "not_authorized", <<>>) ELSE { <<>> }
    IN TryExcept(UNION {
           IF LastFailed(r) THEN { Body(coll, auth, r, TRUE) }
           ELSE IF Len(msg.args) < 2
           THEN Replied(coll, auth, Reply(r, "usage", <<>>))
           ELSE { Body(coll, auth, r, TRUE) } \cup
                Replied(save_verified_user(coll, username, service), auth,
                        Reply(r, "added", service)) : r \in refused })

\* a mutated /add that writes before it checks the sender
add_verified_savefirst(msg, coll, auth) ==
    LET written == IF Len(msg.args) < 2 THEN coll
                   ELSE save_verified_user(coll, format_username(msg.args[1]),
                                           Join(Tail(msg.args)))
    IN IF ~is_authorized(auth, msg.from)
       THEN TryExcept(Replied(written, auth, Reply(<<>>, "not_authorized", <<>>)))
       ELSE IF Len(msg.args) < 2
       THEN TryExcept(Replied(coll, auth, Reply(<<>>, "usage", <<>>)))
       ELSE TryExcept({ StoreRaises(coll, auth) } \cup
                      Replied(written, auth,
                              Reply(<<>>, "added", Join(Tail(msg.args)))))

\* main.py:137-156; text.split(maxsplit=2) has three parts exactly when at
\* least two tokens follow the command word, the third part being the rest
add_verified(msg, coll, auth) ==
    IF ~is_authorized(auth, msg.from)
    THEN TryExcept(Replied(coll, auth, Reply(<<>>, "not_authorized", <<>>)))
    ELSE IF Len(msg.args) < 2
    THEN TryExcept(Replied(coll, auth, Reply(<<>>, "usage", <<>>)))
    ELSE LET username == format_username(msg.args[1])
             service == Join(Tail(msg.args))
         IN TryExcept({ StoreRaises(coll, auth) } \cup
                      Replied(save_verified_user(coll, username, service), auth,
                              Reply(<<>>, "added", service)))

\* main.py:170-174: after the existence check, the delete and the reply
remove_found(msg, coll, auth, found) ==
    IF found # NoDocument
    THEN { StoreRaises(coll, auth) } \cup
         Replied(remove_verified_user(coll, msg.args[1]), auth,
                 Reply(<<>>, "removed", <<>>))
    ELSE Replied(coll, auth, Reply(<<>>, "not_found", <<>>))

\* main.py:158-177
remove_verified(msg, coll, auth) ==
    IF ~is_authorized(auth, msg.from)
    THEN TryExcept(Replied(coll, auth, Reply(<<>>, "not_authorized", <<>>)))
    ELSE IF Len(msg.args) # 1
    THEN TryExcept(Replied(coll, auth, Reply(<<>>, "usage", <<>>)))
    ELSE TryExcept({ StoreRaises(coll, auth) } \cup
                   UNION { remove_found(msg, coll, auth, found) :
                               found \in get_verified_user(coll, msg.args[1]) })

\* a mutated owner check that accepts every authorized user
may_authorize_delegated(auth, id) == id \in auth

\* main.py:182
may_authorize(auth, id) == id = OWNER_ID

\* a mutated /auth that assigns the registry instead of adding to it
authorize_user_replace(msg, coll, auth) ==
    IF ~may_authorize(auth, msg.from)
    THEN TryExcept(Replied(coll, auth, Reply(<<>>, "only_owner", <<>>)))
    ELSE IF Len(msg.args) # 1
    THEN TryExcept(Replied(coll, auth, Reply(<<>>, "usage", <<>>)))
    ELSE IF ~is_int(msg.args[1])
    THEN TryExcept(Replied(coll, auth, Reply(<<>>, "invalid_id", <<>>)))
    ELSE TryExcept(Replied(coll, { int(msg.args[1]) },
                           Reply(<<>>, "authorized", <<>>)))

\* main.py:179-198
authorize_user(msg, coll, auth) ==
    IF ~may_authorize(auth, msg.from)
    THEN TryExcept(Replied(coll, auth, Reply(<<>>, "only_owner", <<>>)))
    ELSE IF Len(msg.args) # 1
    THEN TryExcept(Replied(coll, auth, Reply(<<>>, "usage", <<>>)))
    ELSE IF ~is_int(msg.args[1])
    THEN TryExcept(Replied(coll, auth, Reply(<<>>, "invalid_id", <<>>)))
    ELSE TryExcept(Replied(coll, auth \cup { int(msg.args[1]) },
                           Reply(<<>>, "authorized", <<>>)))

\* main.py:208-210: no try/except around the reply
ping_command(msg, coll, auth) ==
    { Result(b, b.replies, b.raised) :
          b \in Replied(coll, auth, Reply(<<>>, "pong", <<>>)) }

\* what telebot's dispatch by command name runs
Dispatch(msg, coll, auth) ==
    CASE msg.cmd = "check" -> check_verification(msg, coll, auth)
      [] msg.cmd = "add" -> add_verified(msg, coll, auth)
      [] msg.cmd = "remove" -> remove_verified(msg, coll, auth)
      [] msg.cmd = "auth" -> authorize_user(msg, coll, auth)
      [] msg.cmd = "ping" -> ping_command(msg, coll, auth)

\* one message handled from its arrival to the end of its handler: the
\* values of verified_collection, authorized_users and last it can leave,
\* over everything the collaborators can do meanwhile.  The handlers run on
\* telebot's worker threads (threaded=True, main.py:35), whatever the
\* supervisor is doing.
Handled(msg, coll, auth) ==
    { [coll |-> o.coll, auth |-> o.auth,
       last |-> [msg |-> msg, replies |-> o.replies, escaped |-> o.escaped]] :
          o \in Dispatch(msg, coll, auth) }

OnCheck ==
    /\ \E msg \in Arrives("check") :
           \E h \in Handled(msg, verified_collection, authorized_users) :
               /\ verified_collection' = h.coll
               /\ authorized_users' = h.auth
               /\ last' = h.last
    /\ UNCHANGED <<supVars, response, raceVars>>

OnAdd ==
    /\ \E msg \in Arrives("add") :
           \E h \in Handled(msg, verified_collection, authorized_users) :
               /\ verified_collection' = h.coll
               /\ authorized_users' = h.auth
               /\ last' = h.last
    /\ UNCHANGED <<supVars, response, raceVars>>

OnRemove ==
    /\ \E msg \in Arrives("remove") :
           \E h \in Handled(msg, verified_collection, authorized_users) :
               /\ verified_collection' = h.coll
               /\ authorized_users' = h.auth
               /\ last' = h.last
    /\ UNCHANGED <<supVars, response, raceVars>>

OnAuth ==
    /\ \E msg \in Arrives("auth") :
           \E h \in Handled(msg, verified_collection, authorized_users) :
               /\ verified_collection' = h.coll
               /\ authorized_users' = h.auth
               /\ last' = h.last
    /\ UNCHANGED <<supVars, response, raceVars>>

OnPing ==
    /\ \E msg \in Arrives("ping") :
           \E h \in Handled(msg, verified_collection, authorized_users) :
               /\ verified_collection' = h.coll
               /\ authorized_users' = h.auth
               /\ last' = h.last
    /\ UNCHANGED <<supVars, response, raceVars>>

\* the service texts an /add can carry
ServiceTexts ==
    { Join(Tail(a)) : a \in UNION { ArgLists("add", n) : n \in 2..MaxArgs } }

----------------------------------------------------------------------------
(* Handlers running at the same time.  The transport hands every message   *)
(* to a worker thread, so a handler runs between the store calls of the    *)
(* others; a single store call is atomic.  The handlers here are /add and  *)
(* /remove sent by the owner with a well-formed text, and no collaborator  *)
(* raises.                                                                 *)

Workers == 1..MaxWorkers

Job(cmd, username, service) ==
    [cmd |-> cmd, username |-> username, service |-> service]

\* a worker with no handler running
Idle == [at |-> "idle", job |-> Job(None, <<>>, <<>>)]

\* the /add and /remove texts that pass the checks of main.py:140-147 and
\* main.py:161-167: args[1] of either, and args[2] of /add
Jobs ==
    { Job("add", u, s) : u \in UserTokens, s \in ServiceTexts }
        \cup { Job("remove", u, <<>>) : u \in UserTokens }

\* remove_verified run with no other handler between its store calls,
\* main.py:169-174: the collection it leaves and the reply it sends
remove_alone(coll, username) ==
    { IF found # NoDocument
      THEN [coll |-> remove_verified_user(coll, username), reply |-> "removed"]
      ELSE [coll |-> coll, reply |-> "not_found"] :
          found \in get_verified_user(coll, username) }

\* a worker takes a message and runs its handler up to the first store call
HandlerStarts(w) ==
    /\ workers[w].at = "idle"
    /\ \E job \in Jobs :
           workers' = [workers EXCEPT
                          ![w] = [at |-> IF job.cmd = "add" THEN "save" ELSE "find",
                                  job |-> job]]
    /\ UNCHANGED <<supVars, cmdVars, response, serial_collection, outcome>>

\* main.py:149-153 of add_verified: the upsert and the reply
AddSaves(w) ==
    /\ workers[w].at = "save"
    /\ LET username == format_username(workers[w].job.username)
           service == workers[w].job.service
       IN /\ verified_collection' =
                 save_verified_user(verified_collection, username, service)
          /\ serial_collection' =
                 save_verified_user(serial_collection, username, service)
    /\ outcome' = [cmd |-> "add", reply |-> "added", serial |-> "added"]
    /\ workers' = [workers EXCEPT ![w] = Idle]
    /\ UNCHANGED <<supVars, authorized_users, last, response>>

\* main.py:169-170 of remove_verified: the existence check; with no
\* document found the handler replies at once (main.py:173-174)
RemoveFinds(w) ==
    /\ workers[w].at = "find"
    /\ \E found \in get_verified_user(verified_collection, workers[w].job.username) :
           IF found # NoDocument
           THEN /\ workers' = [workers EXCEPT ![w].at = "delete"]
                /\ UNCHANGED <<serial_collection, outcome>>
           ELSE /\ workers' = [workers EXCEPT ![w] = Idle]
                /\ \E alone \in remove_alone(serial_collection, workers[w].job.username) :
                       /\ serial_collection' = alone.coll
                       /\ outcome' = [cmd |-> "remove", reply |-> "not_found",
                                      serial |-> alone.reply]
    /\ UNCHANGED <<supVars, cmdVars, response>>

\* main.py:171-172 of remove_verified: the delete and the reply
RemoveDeletes(w) ==
    /\ workers[w].at = "delete"
    /\ verified_collection' =
           remove_verified_user(verified_collection, workers[w].job.username)
    /\ \E alone \in remove_alone(serial_collection, workers[w].job.username) :
           /\ serial_collection' = alone.coll
           /\ outcome' = [cmd |-> "remove", reply |-> "removed",
                          serial |-> alone.reply]
    /\ workers' = [workers EXCEPT ![w] = Idle]
    /\ UNCHANGED <<supVars, authorized_users, last, response>>

----------------------------------------------------------------------------
(* Specifications                                                          *)

Init ==
    /\ bot_running = FALSE
    /\ pc = [t \in Threads |-> "unstarted"]
    /\ main_pc = "start_polling"
    /\ tick = [ran |-> FALSE, read |-> FALSE, started |-> 0, down |-> 0]
    /\ verified_collection = {}
    /\ authorized_users = {OWNER_ID}
    /\ last = [msg |-> NoMessage, replies |-> <<>>, escaped |-> FALSE]
    /\ response = [path |-> None, body |-> <<>>, status |-> 0]
    /\ workers = [w \in Workers |-> Idle]
    /\ serial_collection = {}
    /\ outcome = [cmd |-> None, reply |-> None, serial |-> None]

\* the steps of bot_polling that need nothing but the thread being scheduled
ThreadProgress(t) ==
    \/ EnterPolling(t)
    \/ ExceptSleepDone(t)
    \/ Finally(t)
    \/ BackoffDone(t)

NextSup ==
    \/ MainStartPolling
    \/ MainStartKeepAlive
    \/ KeepAliveTick
    \/ \E t \in Threads : EnterPolling(t)
    \/ \E t \in Threads : \E e \in Exceptions : PollingRaises(t, e)
    \/ \E t \in Threads : PollingReturns(t)
    \/ \E t \in Threads : ExceptSleepDone(t)
    \/ \E t \in Threads : Finally(t)
    \/ \E t \in Threads : BackoffDone(t)

NextCmd ==
    \/ OnCheck
    \/ OnAdd
    \/ OnRemove
    \/ OnAuth
    \/ OnPing

NextHttp ==
    \/ home
    \/ health

NextRace ==
    \/ \E w \in Workers : HandlerStarts(w)
    \/ \E w \in Workers : AddSaves(w)
    \/ \E w \in Workers : RemoveFinds(w)
    \/ \E w \in Workers : RemoveDeletes(w)

Next == NextSup \/ NextCmd \/ NextHttp \/ NextRace

\* the whole program
Spec == Init /\ [][Next]_vars

\* the supervisor, the monitor and the health endpoints
SupSpec == Init /\ [][NextSup \/ NextHttp]_vars

\* the supervisor with every started thread scheduled again and again and
\* every time.sleep ending
LiveSpec ==
    /\ Init
    /\ [][NextSup]_vars
    /\ WF_vars(MainStartPolling)
    /\ \A t \in Threads : WF_vars(ThreadProgress(t))

\* the command handlers
CmdSpec == Init /\ [][NextCmd]_vars

\* /add and /remove handlers on the worker threads
RaceSpec == Init /\ [][NextRace]_vars

----------------------------------------------------------------------------
(* Claims about the supervisor and the monitor                             *)

\* C1: at most one receive loop is active at a time: at most one
\* bot_polling thread is inside bot.polling(), and keep_alive never starts a
\* thread while an earlier one still runs its loop.  No thread ever leaves
\* its loop and __main__ starts the first, so a thread started by keep_alive
\* is a second running thread.
C1_OneReceiveLoop ==
    /\ Cardinality(InPolling(pc)) <= 1
    /\ NumThreads(pc) <= 1

\* C2: bot_running is true exactly while a receive loop is inside
\* bot.polling(), and false at all other times, also right after the call
\* raised and during the whole backoff.
C2_FlagIffPolling ==
    bot_running <=> InPolling(pc) # {}

LoopPositions == {"top", "polling", "except", "finally", "backoff"}

\* C3: the supervisor recovers from every fault and never stops: a started
\* thread is always somewhere in its loop; after the receive call raised or
\* returned the thread writes the flag false, and later it writes the flag
\* true again and is inside the receive call.
C3_SupervisorRecovers ==
    /\ [](\A t \in Threads : pc[t] \in LoopPositions \cup {"unstarted"})
    /\ [][\A t \in Threads :
             /\ (pc[t] = "polling" /\ pc'[t] # "polling")
                    => pc'[t] \in {"except", "finally"}
             /\ (pc[t] = "finally" /\ pc'[t] # "finally")
                    => (pc'[t] = "backoff" /\ ~bot_running')
             /\ (pc[t] # "polling" /\ pc'[t] = "polling") => bot_running']_vars
    /\ \A t \in Threads : (pc[t] \in {"except", "finally"}) ~> (pc[t] = "backoff")
    /\ \A t \in Threads : (pc[t] = "backoff") ~> (pc[t] = "polling")

\* a thread whose receive call ended has cleared the flag and sits in its
\* backoff, while another thread is back inside the receive call
C3_Witness ==
    \E t, u \in Threads :
        /\ pc[t] = "backoff"
        /\ pc[u] = "polling"
        /\ bot_running

\* C4: a keep_alive tick that reads the flag false starts exactly one
\* bot_polling thread, a tick that reads it true starts none; once __main__
\* has started its threads, threads are started by such ticks only.
C4_TickStartsOneIffDown ==
    /\ [](tick.ran => tick.started = (IF tick.read THEN 0 ELSE 1))
    /\ [][(main_pc = "serving" /\ NumThreads(pc') # NumThreads(pc))
              => /\ ~bot_running
                 /\ NumThreads(pc') = NumThreads(pc) + 1
                 /\ tick'.ran /\ ~tick'.read]_vars

\* a tick read the flag false and started a thread next to the first one
C4_Witness ==
    /\ tick.ran /\ ~tick.read /\ tick.started = 1
    /\ NumThreads(pc) >= 2

----------------------------------------------------------------------------
(* Claims about the command handlers                                       *)

FirstKind(replies) == replies[1].kind

\* the replies that were delivered
Delivered(replies) == { i \in DOMAIN replies : replies[i].ok }

\* C5: /add and /remove by a sender outside authorized_users get the
\* refusal as their answer and leave the collection as it was; a
\* well-formed /add by a sender inside authorized_users (the owner, or
\* whoever the owner's /auth put there) writes its record, unless the store
\* call itself raised.
C5_AuthorizationGatesWrites ==
    [][LET m == last'.msg
           r == last'.replies
       IN /\ (m.cmd \in {"add", "remove"} /\ m.from \notin authorized_users)
                 => /\ verified_collection' = verified_collection
                    /\ FirstKind(r) = "not_authorized"
          /\ (/\ m.cmd = "add"
              /\ m.from \in authorized_users
              /\ Len(m.args) >= 2
              /\ FirstKind(r) # "error")
                 => /\ FirstKind(r) = "added"
                    /\ Doc(format_username(m.args[1]), Join(Tail(m.args)))
                           \in verified_collection']_vars

\* the other sender, authorized by the owner meanwhile, has added a record
C5_Witness ==
    /\ last.msg.cmd = "add"
    /\ last.msg.from # OWNER_ID
    /\ last.msg.from \in authorized_users
    /\ FirstKind(last.replies) = "added"
    /\ Doc(format_username(last.msg.args[1]), Join(Tail(last.msg.args)))
           \in verified_collection

\* C6: an /auth by anyone but OWNER_ID is rejected and leaves
\* authorized_users as it was, whatever its arguments and also when the
\* sender is in authorized_users.
C6_OnlyOwnerAuthorizes ==
    [][(last'.msg.cmd = "auth" /\ last'.msg.from # OWNER_ID)
           => /\ authorized_users' = authorized_users
              /\ FirstKind(last'.replies) = "only_owner"]_vars

\* an authorized sender who is not the owner was refused a numeric /auth
C6_Witness ==
    /\ last.msg.cmd = "auth"
    /\ last.msg.from # OWNER_ID
    /\ last.msg.from \in authorized_users
    /\ last.msg.args = << <<"2">> >>
    /\ FirstKind(last.replies) = "only_owner"

\* identities as callers of the store helpers may write them
RawIdentities ==
    UserTokens \cup { <<" ", "@", "A", "_", "b", " ">>, <<"A", "@", "_", "B">>,
                      <<"@", "@", "a", "b">> }

\* what is left of an identity without its sigils, its case and the
\* whitespace around it
Bare(id) == Strip(Lower(Replace(id, "@", <<>>)))

\* C7: for identities id1, id2 that differ only in "@" sigils, letter case
\* and surrounding whitespace, for every service text and whatever the
\* collection holds, save_verified_user(id1, svc) directly followed by
\* get_verified_user(id2) returns a record whose service is svc.
C7_SaveThenGet ==
    \A id1 \in RawIdentities, id2 \in RawIdentities, svc \in ServiceTexts :
        Bare(id1) = Bare(id2)
            => \A found \in get_verified_user(
                                save_verified_user(verified_collection, id1, svc), id2) :
                   found # NoDocument /\ found.service = svc

\* C8: when a record exists under the canonical key of id, an authorized
\* /remove id that reports the removal leaves a collection in which a
\* lookup of id finds nothing (so that a second /remove id would report
\* "not a verified user" and change nothing).
C8_RemoveThenAbsent ==
    [][LET m == last'.msg
       IN (/\ m.cmd = "remove"
           /\ FirstKind(last'.replies) = "removed"
           /\ \E d \in verified_collection : d.username = format_username(m.args[1]))
              => get_verified_user(verified_collection', m.args[1]) = { NoDocument }]_vars

\* C9: no exception ever leaves a handler.
C9_HandlersIsolate ==
    ~last.escaped

MarkdownKinds == {"verified", "not_verified"}

\* a bot.reply_to call other than the MarkdownV2 one of /check raised
PlainReplyRaised(replies) ==
    \E i \in DOMAIN replies : ~replies[i].ok /\ replies[i].kind \notin MarkdownKinds

\* C10: a handled command has exactly one delivered reply on each of the
\* paths success, usage error, refusal, validation error, MarkdownV2
\* failure with plain-text fallback and store failure, that is whenever no
\* plain bot.reply_to call raised; and never more than one.
C10_ExactlyOneReply ==
    /\ Cardinality(Delivered(last.replies)) <= 1
    /\ (last.msg.cmd # None /\ ~PlainReplyRaised(last.replies))
           => Cardinality(Delivered(last.replies)) = 1

\* the MarkdownV2 reply of a /check raised and the plain-text one went out
C10_Witness ==
    /\ last.msg.cmd = "check"
    /\ Len(last.replies) = 2
    /\ last.replies[1].kind = "verified" /\ ~last.replies[1].ok
    /\ last.replies[2].kind = "verified_plain" /\ last.replies[2].ok

----------------------------------------------------------------------------
(* Claims about rejected commands, keys and the registry                   *)

RejectionKinds == {"usage", "not_authorized", "only_owner", "invalid_id"}

\* C11: a handler run that ends in a usage hint, an authorization refusal
\* or the validation error of /auth leaves the collection and
\* authorized_users exactly as they were.
C11_RejectedChangesNothing ==
    [][FirstKind(last'.replies) \in RejectionKinds
           => /\ verified_collection' = verified_collection
              /\ authorized_users' = authorized_users]_vars

\* the other sender, not authorized, was refused an /add that carried a
\* record, next to a collection that holds records
C11_Witness ==
    /\ last.msg.cmd = "add"
    /\ Len(last.msg.args) >= 2
    /\ last.msg.from \notin authorized_users
    /\ FirstKind(last.replies) = "not_authorized"
    /\ verified_collection # {}

\* lowercase, trimmed, one leading "@" and no other
IsCanonical(key) ==
    /\ key # <<>>
    /\ Head(key) = "@"
    /\ \A i \in 2..Len(key) : key[i] # "@"
    /\ \A i \in 1..Len(key) : key[i] \notin {"A", "B"}
    /\ ~IsSpace(key[Len(key)])
    /\ Len(key) >= 2 => ~IsSpace(key[2])

\* C12: starting from the empty collection, after any sequence of commands
\* every key of the collection is in canonical form.
C12_KeysCanonical ==
    \A d \in verified_collection : IsCanonical(d.username)

\* a record written from a username typed with a sigil and capitals
C12_Witness ==
    /\ last.msg.cmd = "add"
    /\ FirstKind(last.replies) = "added"
    /\ last.msg.args[1] = <<"@", "A", "B">>
    /\ \E d \in verified_collection : d.username = <<"@", "a", "b">>

\* C13: OWNER_ID is always in authorized_users, and no step takes an
\* identity out of authorized_users.
C13_RegistryGrows ==
    /\ [](OWNER_ID \in authorized_users)
    /\ [][authorized_users \subseteq authorized_users']_vars

\* the owner authorized the other sender, who is still authorized after a
\* later /auth of the owner and of itself
C13_Witness ==
    /\ authorized_users = Senders
    /\ last.msg.cmd = "auth"
    /\ last.msg.from # OWNER_ID

\* C14: when the collection holds records under several lookup candidates
\* of an identity, get_verified_user returns the record of the earliest
\* candidate, so a record under the canonical key always wins.
C14_CanonicalWins ==
    \A id \in UserTokens :
        \A d \in verified_collection :
            d.username = format_username(id)
                => get_verified_user(verified_collection, id) = { d }

\* C17: when /remove id reports the removal although no record existed
\* under the canonical key of id (the existence check matched a variant
\* key), the collection is left unchanged and a later lookup of id still
\* returns a variant record.
C17_RemoveMissesVariant ==
    [][LET m == last'.msg
           key == format_username(m.args[1])
       IN (/\ m.cmd = "remove"
           /\ FirstKind(last'.replies) = "removed"
           /\ \A d \in verified_collection : d.username # key)
              => /\ verified_collection' = verified_collection
                 /\ \A found \in get_verified_user(verified_collection', m.args[1]) :
                        /\ found # NoDocument
                        /\ found.username \in lookup_filter(key) \ { key }]_vars

\* /remove a_b reported the removal while only @ab is stored
C17_Witness ==
    /\ last.msg.cmd = "remove"
    /\ last.msg.args = << <<"a", "_", "b">> >>
    /\ FirstKind(last.replies) = "removed"
    /\ \E svc \in ServiceTexts :
           verified_collection = { Doc(<<"@", "a", "b">>, svc) }

----------------------------------------------------------------------------
(* Claims about the writers of the flag, the health routes and the         *)
(* lifetime of the supervisor threads                                      *)

\* C16: the flag has a single writer: at most one thread exists that can
\* write bot_running, and no write of False overwrites the True of a
\* supervisor that is still inside its receive call, so the flag is never
\* False while a thread is inside bot.polling().
C16_SingleWriter ==
    /\ NumThreads(pc) <= 1
    /\ InPolling(pc) # {} => bot_running

\* C18: a request to / or /health reports "running" exactly when
\* bot_running is true at the request and "stopped" otherwise, /health
\* answers 200 either way, and the request changes neither the flag, nor
\* the threads, nor the collection, nor authorized_users.
C18_HealthOnlyObserves ==
    [][response' # response
           => /\ response'.path \in {"/", "/health"}
              /\ response'.body[2] = (IF bot_running THEN "running" ELSE "stopped")
              /\ response'.path = "/health" => response'.status = 200
              /\ UNCHANGED <<bot_running, pc, main_pc, verified_collection,
                             authorized_users>>]_vars

\* /health answered 200 and "stopped" while a supervisor thread sits in
\* its backoff
C18_Witness ==
    /\ response.path = "/health"
    /\ response.status = 200
    /\ response.body[2] = "stopped"
    /\ ~bot_running
    /\ \E t \in Threads : pc[t] = "backoff"

\* C19: supervisor threads are never retired: a started thread stays in
\* its loop for ever, so the number of threads never decreases; it grows by
\* one with every keep_alive tick that reads the flag False, k such ticks
\* leaving k + 1 threads; and every started thread enters the receive call
\* again and again.
C19_ThreadsAccumulate ==
    /\ [](\A t \in Threads : pc[t] \in LoopPositions \cup {"unstarted"})
    /\ [][Running(pc) \subseteq Running(pc')]_vars
    /\ [](main_pc # "start_polling" => NumThreads(pc) = tick.down + 1)
    /\ \A t \in Threads : (pc[t] # "unstarted") ~> (pc[t] = "polling")

\* two ticks read False: three supervisor threads, all inside bot.polling()
C19_Witness ==
    /\ tick.down = 2
    /\ NumThreads(pc) = 3
    /\ \A t \in Threads : t <= 3 => pc[t] = "polling"

----------------------------------------------------------------------------
(* Claims about handlers that run at the same time                         *)

\* C15: with every store call atomic, whatever the interleaving of /remove
\* handlers with /add and /remove handlers running at the same time, the
\* collection is the one that the same handlers leave when each runs alone,
\* one after the other in the order of their last store call; no username
\* has two documents; and a /remove handler differs from its run alone only
\* in the reply, by answering "removed" where the run alone answers "not a
\* verified user".
C15_RemoveRaceBenign ==
    /\ verified_collection = serial_collection
    /\ \A d1, d2 \in verified_collection : d1.username = d2.username => d1 = d2
    /\ outcome.reply # outcome.serial
           => /\ outcome.cmd = "remove"
              /\ outcome.reply = "removed"
              /\ outcome.serial = "not_found"

\* a /remove handler has replied "removed" after another handler deleted
\* the document between its check and its delete
C15_Witness ==
    /\ outcome.cmd = "remove"
    /\ outcome.reply = "removed"
    /\ outcome.serial = "not_found"
    /\ verified_collection = serial_collection

====
